---- MODULE Spec2Model ----
(***************************************************************************)
(* Generate_Subset_By_Column_Spark.ipynb: the notebook reads one CSV file  *)
(* per period, folds the (identifier, label) rows of each file into the    *)
(* DataFrame df_merged (union, groupBy identifier, max label, summed       *)
(* period_count), filters on min_periods, computes the two sampling        *)
(* fractions, draws the stratified sample with sampleBy and writes it to   *)
(* a Parquet file.                                                         *)
(*                                                                         *)
(* A DataFrame is a bag (multiset) of rows, a row a record of its columns. *)
(* A Python float that the notebook computes from integers is the exact    *)
(* fraction <<numerator, denominator>> (denominator > 0); the values of    *)
(* p_sub_positive the model draws are binary fractions, so the float       *)
(* comparisons the run depends on (against 0, against 1, against a random  *)
(* draw) agree with the exact ones.  Timestamps and elapsed times of the   *)
(* progress lines are left out of stdout.                                  *)
(***************************************************************************)
EXTENDS Integers, Sequences, FiniteSets, Bags, TLC

VARIABLES
    file_sequence,   \* parameter: the period indices, in folding order
    min_periods,     \* parameter: minimum period_count of an eligible ID
    n_sub_ids,       \* parameter: target subset size
    p_sub_positive,  \* parameter: target positive fraction, <<num, den>>
    dataset,         \* the file system: filename -> bag of CSV rows
    parquet,         \* the file system: the output file
    pc,              \* the next step of the run
    error,           \* the exception that ended the run, "" when none
    loop_index,      \* position in file_sequence of the merge loop (1-based)
    df_merged,       \* the Accumulated Table
    max_len,         \* width of the filename column of the progress lines
    lastrows,        \* row count reported for the previous period
    stdout,          \* the lines printed so far
    n_total, n_positive, f_positive, f_negative,
    df_final         \* the sampled subset

vars == <<file_sequence, min_periods, n_sub_ids, p_sub_positive, dataset,
          parquet, pc, error, loop_index, df_merged, max_len, lastrows,
          stdout, n_total, n_positive, f_positive, f_negative, df_final>>

params == <<file_sequence, min_periods, n_sub_ids, p_sub_positive, dataset>>

(***************************************************************************)
(* Bounds of the model                                                     *)
(***************************************************************************)
\* rows of the data set, all period files together
MaxRows == 3
\* periods (files) of the data set; file_sequence = range(0, MaxPeriods)
MaxPeriods == 2
\* a draw of rand(seed) is one of 0/DrawDen .. (DrawDen-1)/DrawDen: the
\* fractions below 1 that the runs compute are at most 2/3, so that every
\* such fraction has a draw below it and a draw at or above it
DrawDen == 3
\* identifiers of the data set
IDs == {"A", "B"}
\* label tokens of the CSV files
RawLabels == {"0", "1", ""}
\* values of min_periods
MinPeriods == {0, 2}
\* values of n_sub_ids
SubsetSizes == {1, 2}
\* values of p_sub_positive
PositiveFractions == {<<0, 1>>, <<1, 2>>, <<1, 1>>}

(***************************************************************************)
(* Values                                                                  *)
(***************************************************************************)
\* SQL NULL in an integer column
NULL == -1

RECURSIVE SumOf(_, _)
\* sum of f[x] over the x of S
SumOf(f, S) ==
    IF S = {} THEN 0
    ELSE LET x == CHOOSE y \in S : TRUE IN f[x] + SumOf(f, S \ {x})

\* Python's builtins.max and min over a non-empty set of integers
MaxOf(S) == CHOOSE m \in S : \A x \in S : x <= m

\* exact comparisons of fractions <<num, den>>, den > 0
FracLess(a, b) == a[1] * b[2] < b[1] * a[2]
FracEq(a, b) == a[1] * b[2] = b[1] * a[2]
FracLeq(a, b) == a[1] * b[2] <= b[1] * a[2]

(***************************************************************************)
(* Filenames                                                               *)
(***************************************************************************)
file_path == "/project_data/data_asset"
file_base == "customers_"
file_type == ".csv"
\* calendar.month_abbr: 13 entries, Python index 0 is the empty string
suffixes == <<"", "Jan", "Feb", "Mar", "Apr", "May", "Jun",
              "Jul", "Aug", "Sep", "Oct", "Nov", "Dec">>

\* Python's seq[j]: defined for -len <= j < len, negative j counts from the end
PyIndexOK(seq, j) == -Len(seq) <= j /\ j < Len(seq)
PyGet(seq, j) == seq[(IF j < 0 THEN j + Len(seq) ELSE j) + 1]

\* os.path.join(fpath, name)
PathJoin(fpath, name) == IF fpath = "" THEN name ELSE fpath \o "/" \o name

\* full_filename raises IndexError exactly when suff[index + 1] does
FilenameOK(index) == PyIndexOK(suffixes, index + 1)
full_filename(index, fpath) ==
    PathJoin(fpath, file_base \o PyGet(suffixes, index + 1) \o file_type)

(***************************************************************************)
(* DataFrame operations                                                    *)
(***************************************************************************)
\* DataFrame.count()
Count(df) == BagCardinality(df)

\* DataFrame.filter(P)
Filter(df, P(_)) == [r \in {x \in DOMAIN df : P(x)} |-> df[r]]

\* a projection (select / withColumn) of every row of df
MapRows(df, F(_)) ==
    [r \in {F(x) : x \in DOMAIN df} |->
        SumOf(df, {x \in DOMAIN df : F(x) = r})]

\* col(label_column).cast("boolean").cast("integer") of a CSV token
TrueTokens == {"1", "Y", "y", "T", "t", "true", "yes"}
FalseTokens == {"0", "N", "n", "F", "f", "false", "no"}
CastLabel(tok) ==
    IF tok \in TrueTokens THEN 1
    ELSE IF tok \in FalseTokens THEN 0
    ELSE NULL

\* spark.read.csv(...).select(...).withColumn(label).withColumn('period_count', lit(1))
ReadPeriod(file) ==
    MapRows(file, LAMBDA r : [customer_id |-> r.customer_id,
                              churned |-> CastLabel(r.churned),
                              period_count |-> 1])

\* (mutant of MaxLabel) min(label_column) in place of max(label_column)
MinLabel(group) ==
    LET labels == {r.churned : r \in group} \ {NULL}
    IN IF labels = {} THEN NULL
       ELSE CHOOSE m \in labels : \A x \in labels : m <= x

\* max(label_column) of a group: NULLs are skipped, NULL when all are NULL
MaxLabel(group) ==
    LET labels == {r.churned : r \in group} \ {NULL}
    IN IF labels = {} THEN NULL ELSE MaxOf(labels)

\* (mutant of SumPeriodCount) count('period_count') in place of
\* sum('period_count'): the rows of the group, whatever count they carry
CountPeriodCount(df, group) == SumOf([r \in group |-> df[r]], group)

\* sum('period_count') of a group of the bag df
SumPeriodCount(df, group) ==
    SumOf([r \in group |-> df[r] * r.period_count], group)

\* (mutant of GroupByAgg) groupBy(id_column, label_column): one row for each
\* label of an identifier
GroupByIdAndLabel(df) ==
    LET Group(key) == {r \in DOMAIN df : <<r.customer_id, r.churned>> = key}
    IN SetToBag({[customer_id |-> key[1],
                  churned |-> key[2],
                  period_count |-> SumOf([r \in Group(key) |->
                                            df[r] * r.period_count],
                                         Group(key))] :
                 key \in {<<r.customer_id, r.churned>> : r \in DOMAIN df}})

\* .groupBy(id_column).agg(max(label_column), sum('period_count'))
GroupByAgg(df) ==
    LET Group(id) == {r \in DOMAIN df : r.customer_id = id}
    IN SetToBag({[customer_id |-> id,
                  churned |-> MaxLabel(Group(id)),
                  period_count |-> SumPeriodCount(df, Group(id))] :
                 id \in {r.customer_id : r \in DOMAIN df}})

\* (mutant of FoldPeriod) withColumn('period_count', lit(1)) is applied to
\* the union instead of the rows read: the accumulated counts start over
FoldPeriodRetagged(file, merged) ==
    GroupByAgg(MapRows(ReadPeriod(file) (+) merged,
                       LAMBDA r : [r EXCEPT !.period_count = 1]))

\* (mutant of FoldPeriod) the label of the newest period replaces the
\* accumulated label instead of being aggregated with it
FoldPeriodLatestLabel(file, merged) ==
    LET new == ReadPeriod(file)
        LabelOf(r) ==
            IF \E q \in DOMAIN new : q.customer_id = r.customer_id
            THEN LET q == CHOOSE q \in DOMAIN new :
                              /\ q.customer_id = r.customer_id
                              /\ \A o \in DOMAIN new :
                                    o.customer_id = r.customer_id
                                    => o.churned <= q.churned
                 IN q.churned
            ELSE r.churned
        both == new (+) merged
    IN SetToBag({[customer_id |-> id,
                  churned |-> LabelOf(CHOOSE r \in DOMAIN both :
                                          r.customer_id = id),
                  period_count |->
                      SumOf([r \in {x \in DOMAIN both : x.customer_id = id}
                                |-> both[r] * r.period_count],
                            {x \in DOMAIN both : x.customer_id = id})] :
                 id \in {r.customer_id : r \in DOMAIN both}})

\* one iteration of the merge loop on the rows of one file
FoldPeriod(file, merged) == GroupByAgg(ReadPeriod(file) (+) merged)

RECURSIVE MergeUpTo(_, _, _)
\* df_merged after the first k iterations of the merge loop over the period
\* indices seq and the files given, starting from the empty DataFrame
MergeUpTo(files, seq, k) ==
    IF k = 0 THEN EmptyBag
    ELSE FoldPeriod(files[full_filename(seq[k], file_path)],
                    MergeUpTo(files, seq, k - 1))

\* (mutant of Eligible) the threshold is counted from the least
\* period_count of the table filtered
EligibleAboveLeast(df, minimum) ==
    LET least == CHOOSE c \in {r.period_count : r \in DOMAIN df} :
                     \A r \in DOMAIN df : c <= r.period_count
    IN Filter(df, LAMBDA r : r.period_count >= least + minimum)

\* (mutant of Eligible) 'period_count > min_periods'
EligibleStrict(df, minimum) == Filter(df, LAMBDA r : r.period_count > minimum)

\* (mutant of Eligible) the filtered DataFrame is not the one sampled
EligibleDropped(df, minimum) == df

\* df_merged.filter('period_count >= min_periods')
Eligible(df, minimum) == Filter(df, LAMBDA r : r.period_count >= minimum)

\* df_merged.filter(label_column + ' > 0')
Positives(df) == Filter(df, LAMBDA r : r.churned # NULL /\ r.churned > 0)

\* the columns of df_merged and of df_final
merge_schema == <<"customer_id", "churned", "period_count">>

(***************************************************************************)
(* Sampling                                                                *)
(***************************************************************************)
\* n_sub_ids*p_sub_positive/n_positive
FPositive(n, p, npos) == <<n * p[1], p[2] * npos>>
\* n_sub_ids*(1-p_sub_positive)/(n_total-n_positive)
FNegative(n, p, ntot, npos) == <<n * (p[2] - p[1]), p[2] * (ntot - npos)>>

\* (mutant of ZeroDivision) the division by zero goes unnoticed
ZeroDivisionIgnored(denominator) == FALSE

\* Python's x / denominator raises ZeroDivisionError for a zero denominator,
\* also for a float x and for x = 0.0
ZeroDivision(denominator) == denominator = 0

\* fractions.getOrElse(stratum, 0.0) with fractions = {0: f_negative, 1: f_positive}
FractionOf(label, fneg, fpos) ==
    IF label = 0 THEN fneg
    ELSE IF label = 1 THEN fpos
    ELSE <<0, 1>>

\* sampleBy requires every fraction to be in [0, 1]: Spark's
\* DataFrameStatFunctions.sampleBy starts with
\*   require(fractions.values.forall(p => p >= 0.0 && p <= 1.0),
\*           s"Fractions must be in [0, 1], but got $fractions.")
\* and the notebook passes f_negative and f_positive as computed
FractionsOK(fneg, fpos) ==
    \A f \in {fneg, fpos} : FracLeq(<<0, 1>>, f) /\ FracLeq(f, <<1, 1>>)

\* sampleBy keeps a row when its draw x/DrawDen of rand(seed), a value of
\* [0, 1), is below the fraction of the row's stratum:
\*   x < fractions.getOrElse(stratum, 0.0)
Retained(label, x, fneg, fpos) ==
    FracLess(<<x, DrawDen>>, FractionOf(label, fneg, fpos))

\* rand(seed) runs one generator for the seed over the rows as they come,
\* XORShiftRandom(seed + partitionIndex) advanced once for each row: the
\* seed fixes the stream of values, which values it yields is left open
RandStreams(n) == [1 .. n -> 0 .. DrawDen - 1]

\* the orders in which the rows of a DataFrame can come: df_merged is the
\* result of a groupBy, whose rows come in the order the shuffle delivers
\* them, and no orderBy stands between it and sampleBy (Spark's note on
\* rand: "The function is non-deterministic in general case")
RowOrders(df) ==
    {o \in [1 .. Cardinality(DOMAIN df) -> DOMAIN df] :
        \A a, b \in DOMAIN o : o[a] = o[b] => a = b}

\* the draw of each row: the value of the stream at the position of the row
DrawsOf(order, stream) ==
    [r \in {order[j] : j \in DOMAIN order} |->
        stream[CHOOSE j \in DOMAIN order : order[j] = r]]

\* the draws of rand(seed), one for each row of the table
Draws(df) ==
    {DrawsOf(order, stream) :
        order \in RowOrders(df),
        stream \in RandStreams(Cardinality(DOMAIN df))}

\* df.sampleBy(col=label_column, fractions={0: fneg, 1: fpos}, seed) with
\* the draws x of the seed
SampleBy(df, x, fneg, fpos) ==
    Filter(df, LAMBDA r : Retained(r.churned, x[r], fneg, fpos))

\* full_path of the Parquet file: n_sub_ids//1000 and int(p_sub_positive*100)
full_path ==
    <<file_path, file_base, n_sub_ids \div 1000,
      (p_sub_positive[1] * 100) \div p_sub_positive[2], ".parquet">>

(***************************************************************************)
(* The run                                                                 *)
(***************************************************************************)
NoFile == [written |-> FALSE, columns |-> <<>>, rows |-> EmptyBag]

\* an exception propagates: the run ends, nothing after it is executed
Raise(exception) ==
    /\ pc' = "failed"
    /\ error' = exception

\* the filenames of the periods of the data set, and the files a data set
\* can hold: MaxRows rows or fewer, spread over the period files
PeriodFiles == {full_filename(n, file_path) : n \in 0 .. MaxPeriods - 1}
RawRows == [customer_id : IDs, churned : RawLabels]
Placements == UNION {[1 .. k -> PeriodFiles \X RawRows] : k \in 0 .. MaxRows}
DatasetOf(pl) ==
    [f \in PeriodFiles |->
        LET copies == [r \in RawRows |->
                          Cardinality({j \in DOMAIN pl : pl[j] = <<f, r>>})]
        IN [r \in {x \in RawRows : copies[x] > 0} |-> copies[r]]]
Datasets == {DatasetOf(pl) : pl \in Placements}

\* the state before the merge cell runs, for the parameters and files given
Start(seq, minimum, n, p, files) ==
    /\ file_sequence = seq
    /\ min_periods = minimum
    /\ n_sub_ids = n
    /\ p_sub_positive = p
    /\ dataset = files
    /\ parquet = NoFile
    /\ pc = "merge"
    /\ error = ""
    /\ loop_index = 1
    /\ df_merged = EmptyBag
    /\ max_len = 0
    /\ lastrows = 0
    /\ stdout = <<>>
    /\ n_total = 0
    /\ n_positive = 0
    /\ f_positive = <<0, 1>>
    /\ f_negative = <<0, 1>>
    /\ df_final = EmptyBag

Init ==
    \E minimum \in MinPeriods, n \in SubsetSizes, p \in PositiveFractions,
       files \in Datasets :
        Start([k \in 1 .. MaxPeriods |-> k - 1], minimum, n, p, files)

\* the data sets in which a period file holds one row or none for each of
\* three identifiers, the label token "0" or "1"; the runs over them have
\* a min_periods that excludes identifiers
OneRowIDs == {"A", "B", "C"}
OneRowFile(cell) ==
    SetToBag({[customer_id |-> id, churned |-> cell[id]] :
              id \in {x \in OneRowIDs : cell[x] # "absent"}})
OneRowDatasets ==
    {[f \in PeriodFiles |-> OneRowFile(cells[f])] :
        cells \in [PeriodFiles -> [OneRowIDs -> {"absent", "0", "1"}]]}

OneRowInit ==
    \E minimum \in MinPeriods \ {0}, n \in SubsetSizes, p \in PositiveFractions,
       files \in OneRowDatasets :
        Start([k \in 1 .. MaxPeriods |-> k - 1], minimum, n, p, files)

\* the three period files of the end-to-end scenario:
\* {A:[0],B:[1],A:[1]}, {A:[0]}, {B:[0],C:[0]}
ScenarioRow(id, tok) == [customer_id |-> id, churned |-> tok]
ScenarioFiles ==
    (full_filename(0, file_path) :>
        SetToBag({ScenarioRow("A", "0"), ScenarioRow("B", "1"),
                  ScenarioRow("A", "1")}))
    @@ (full_filename(1, file_path) :> SetToBag({ScenarioRow("A", "0")}))
    @@ (full_filename(2, file_path) :>
        SetToBag({ScenarioRow("B", "0"), ScenarioRow("C", "0")}))

ScenarioInit ==
    \E minimum \in {0, 1, 2, 3}, n \in SubsetSizes, p \in PositiveFractions :
        Start(<<0, 1, 2>>, minimum, n, p, ScenarioFiles)

\* period indices within and outside range(0, 12): below the suffix table
\* (-15), negative ones that Python counts from the end of the table
\* (-14, -2, -1), the first months, and the first index above the table
PeriodIndices == {-15, -14, -2, -1, 0, 1, 12}

\* the file_sequence values of up to MaxPeriods such indices, the empty
\* one included
IndexSequences == UNION {[1 .. k -> PeriodIndices] : k \in 0 .. MaxPeriods}

\* period files that hold a positive A and a negative B, a negative A and
\* a positive C, or no row; the files of the months beyond MaxPeriods and
\* the file 'customers_.csv' do not exist
IndexCells ==
    {[id \in OneRowIDs |-> "absent"],
     [id \in OneRowIDs |->
        IF id = "A" THEN "1" ELSE IF id = "B" THEN "0" ELSE "absent"],
     [id \in OneRowIDs |->
        IF id = "A" THEN "0" ELSE IF id = "C" THEN "1" ELSE "absent"]}
IndexDatasets ==
    {[f \in PeriodFiles |-> OneRowFile(cells[f])] :
        cells \in [PeriodFiles -> IndexCells]}

IndexInit ==
    \E seq \in IndexSequences, minimum \in MinPeriods, n \in SubsetSizes,
       p \in PositiveFractions, files \in IndexDatasets :
        Start(seq, minimum, n, p, files)

\* (mutant of MergeBegin) max_len is not computed: the filename of a
\* period is generated first when the loop comes to the period
MergeBeginWithoutWidths ==
    /\ pc = "merge"
    /\ df_merged' = EmptyBag
    /\ lastrows' = 0
    /\ loop_index' = 1
    /\ stdout' = Append(stdout, [line |-> "Started table merge"])
    /\ pc' = "loop"
    /\ UNCHANGED <<params, parquet, error, max_len, n_total, n_positive,
                   f_positive, f_negative, df_final>>

\* the merge cell up to its loop: the empty df_merged, max_len, lastrows
MergeBegin ==
    /\ pc = "merge"
    /\ df_merged' = EmptyBag
    /\ lastrows' = 0
    /\ loop_index' = 1
    /\ IF \E k \in DOMAIN file_sequence : ~FilenameOK(file_sequence[k])
       THEN Raise("IndexError") /\ UNCHANGED <<max_len, stdout>>
       ELSE IF file_sequence = <<>>
       THEN Raise("ValueError") /\ UNCHANGED <<max_len, stdout>>
       ELSE /\ max_len' = MaxOf({Len(full_filename(file_sequence[k], "")) :
                                   k \in DOMAIN file_sequence})
            /\ stdout' = Append(stdout, [line |-> "Started table merge"])
            /\ pc' = "loop"
            /\ error' = error
    /\ UNCHANGED <<params, parquet, n_total, n_positive, f_positive,
                   f_negative, df_final>>

\* (mutant of MergeStep) a period whose file cannot be read is skipped and
\* the loop goes on with the next period
MergeStepSkipsMissing ==
    /\ pc = "loop"
    /\ loop_index <= Len(file_sequence)
    /\ LET sequence_number == file_sequence[loop_index]
           filename == full_filename(sequence_number, file_path)
       IN IF filename \notin DOMAIN dataset
          THEN UNCHANGED <<df_merged, lastrows, stdout>>
          ELSE LET merged == FoldPeriod(dataset[filename], df_merged)
                   rows == Count(merged)
               IN /\ df_merged' = merged
                  /\ stdout' = Append(stdout,
                         [line |-> "Finished with file",
                          file |-> full_filename(sequence_number, ""),
                          rows |-> rows, diff |-> rows - lastrows])
                  /\ lastrows' = rows
    /\ loop_index' = loop_index + 1
    /\ UNCHANGED <<params, parquet, pc, error, max_len, n_total, n_positive,
                   f_positive, f_negative, df_final>>

\* (mutant of MergeStep) lastrows = rows is left out at the end of the
\* iteration
MergeStepKeepsLastrows ==
    /\ pc = "loop"
    /\ loop_index <= Len(file_sequence)
    /\ LET sequence_number == file_sequence[loop_index]
           filename == full_filename(sequence_number, file_path)
       IN IF filename \notin DOMAIN dataset
          THEN Raise("AnalysisException")
               /\ UNCHANGED <<df_merged, stdout, loop_index>>
          ELSE LET merged == FoldPeriod(dataset[filename], df_merged)
                   rows == Count(merged)
               IN /\ df_merged' = merged
                  /\ stdout' = Append(stdout,
                         [line |-> "Finished with file",
                          file |-> full_filename(sequence_number, ""),
                          rows |-> rows, diff |-> rows - lastrows])
                  /\ loop_index' = loop_index + 1
                  /\ UNCHANGED <<pc, error>>
    /\ UNCHANGED <<params, parquet, max_len, lastrows, n_total, n_positive,
                   f_positive, f_negative, df_final>>

\* one iteration of the merge loop: read the file of the period, fold it
\* into df_merged, count the rows and print the progress line
MergeStep ==
    /\ pc = "loop"
    /\ loop_index <= Len(file_sequence)
    /\ LET sequence_number == file_sequence[loop_index]
           filename == full_filename(sequence_number, file_path)
       IN IF ~FilenameOK(sequence_number)
          THEN Raise("IndexError")
               /\ UNCHANGED <<df_merged, lastrows, stdout, loop_index>>
          ELSE IF filename \notin DOMAIN dataset
          THEN Raise("AnalysisException")
               /\ UNCHANGED <<df_merged, lastrows, stdout, loop_index>>
          ELSE LET merged == FoldPeriod(dataset[filename], df_merged)
                   rows == Count(merged)
               IN /\ df_merged' = merged
                  /\ stdout' = Append(stdout,
                         [line |-> "Finished with file",
                          file |-> full_filename(sequence_number, ""),
                          rows |-> rows, diff |-> rows - lastrows])
                  /\ lastrows' = rows
                  /\ loop_index' = loop_index + 1
                  /\ UNCHANGED <<pc, error>>
    /\ UNCHANGED <<params, parquet, max_len, n_total, n_positive,
                   f_positive, f_negative, df_final>>

\* after the loop: printSchema and the number of unique IDs
MergeEnd ==
    /\ pc = "loop"
    /\ loop_index > Len(file_sequence)
    /\ stdout' = Append(stdout, [line |-> "unique IDs",
                                 rows |-> Count(df_merged)])
    /\ pc' = "filter"
    /\ UNCHANGED <<params, parquet, error, loop_index, df_merged, max_len,
                   lastrows, n_total, n_positive, f_positive, f_negative,
                   df_final>>

\* df_merged = df_merged.filter('period_count >= {}'.format(min_periods))
FilterCell ==
    /\ pc = "filter"
    /\ df_merged' = Eligible(df_merged, min_periods)
    /\ pc' = "fractions"
    /\ UNCHANGED <<params, parquet, error, loop_index, max_len, lastrows,
                   stdout, n_total, n_positive, f_positive, f_negative,
                   df_final>>

\* n_total, n_positive, f_positive, f_negative: a float division by an
\* integer zero raises ZeroDivisionError, whatever the numerator
FractionsCell ==
    /\ pc = "fractions"
    /\ LET ntot == Count(df_merged)
           npos == Count(Positives(df_merged))
       IN /\ n_total' = ntot
          /\ n_positive' = npos
          /\ IF ZeroDivision(npos)
             THEN Raise("ZeroDivisionError")
                  /\ UNCHANGED <<f_positive, f_negative>>
             ELSE /\ f_positive' = FPositive(n_sub_ids, p_sub_positive, npos)
                  /\ IF ZeroDivision(ntot - npos)
                     THEN Raise("ZeroDivisionError") /\ UNCHANGED f_negative
                     ELSE /\ f_negative' = FNegative(n_sub_ids, p_sub_positive,
                                                     ntot, npos)
                          /\ pc' = "report"
                          /\ error' = error
    /\ UNCHANGED <<params, parquet, loop_index, df_merged, max_len, lastrows,
                   stdout, df_final>>

\* the cell that prints the counts and the sampling rates
ReportCell ==
    /\ pc = "report"
    /\ stdout' = Append(stdout, [line |-> "Total unique qualifying IDs",
                                 total |-> n_total, positives |-> n_positive,
                                 positive_rate |-> f_positive,
                                 negative_rate |-> f_negative])
    /\ pc' = "sample"
    /\ UNCHANGED <<params, parquet, error, loop_index, df_merged, max_len,
                   lastrows, n_total, n_positive, f_positive, f_negative,
                   df_final>>

\* df_final = df_merged.sampleBy(col=label_column,
\*                fractions={0:f_negative, 1:f_positive}, seed=123)
SampleCell ==
    /\ pc = "sample"
    /\ IF ~FractionsOK(f_negative, f_positive)
       THEN Raise("IllegalArgumentException") /\ UNCHANGED <<df_final, stdout>>
       ELSE \E x \in Draws(df_merged) :
              LET sample == SampleBy(df_merged, x, f_negative, f_positive)
              IN /\ df_final' = sample
                 /\ stdout' = Append(stdout, [line |-> "Actual subset size",
                                              rows |-> Count(sample)])
                 /\ pc' = "write"
                 /\ error' = error
    /\ UNCHANGED <<params, parquet, loop_index, df_merged, max_len, lastrows,
                   n_total, n_positive, f_positive, f_negative>>

\* df_final.write.parquet(full_path, mode='overwrite')
WriteCell ==
    /\ pc = "write"
    /\ parquet' = [written |-> TRUE, columns |-> merge_schema,
                   rows |-> df_final]
    /\ stdout' = Append(stdout, [line |-> "Parquet file successfully written",
                                 path |-> full_path])
    /\ pc' = "done"
    /\ UNCHANGED <<params, error, loop_index, df_merged, max_len, lastrows,
                   n_total, n_positive, f_positive, f_negative, df_final>>

Next ==
    \/ MergeBegin
    \/ MergeStep
    \/ MergeEnd
    \/ FilterCell
    \/ FractionsCell
    \/ ReportCell
    \/ SampleCell
    \/ WriteCell

Spec == Init /\ [][Next]_vars

\* the run over period files with at most one row for an identifier
OneRowSpec == OneRowInit /\ [][Next]_vars

\* the run over the files of the end-to-end scenario
ScenarioSpec == ScenarioInit /\ [][Next]_vars

\* the run over a file_sequence of any period indices
IndexSpec == IndexInit /\ [][Next]_vars

(***************************************************************************)
(* What the properties below speak of                                      *)
(***************************************************************************)
\* the periods folded so far, as positions of file_sequence
Folded == 1 .. (loop_index - 1)

\* df_merged is the Accumulated Table: after each fold and after the last
Merging == pc = "loop" \/ pc = "filter"

\* the CSV file of the period at position k of file_sequence
FileAt(k) == dataset[full_filename(file_sequence[k], file_path)]

\* the rows of the file at position k that carry the identifier
RowsOfId(id, k) == {r \in DOMAIN FileAt(k) : r.customer_id = id}

\* how many rows of the periods folded so far carry the identifier
Occurrences(id) ==
    SumOf([k \in Folded |-> SumOf(FileAt(k), RowsOfId(id, k))], Folded)

\* the identifiers of the whole data set, and those seen so far
AllIDs == {r.customer_id : r \in UNION {DOMAIN dataset[f] : f \in DOMAIN dataset}}
SeenIDs == {id \in AllIDs : \E k \in Folded : RowsOfId(id, k) # {}}

\* how many rows of a DataFrame carry the identifier
RowsWithId(df, id) == SumOf(df, {r \in DOMAIN df : r.customer_id = id})

\* the labels, after the cast, of the rows seen so far for the identifier
LabelsSeen(id) ==
    {CastLabel(r.churned) : r \in UNION {RowsOfId(id, k) : k \in Folded}}

\* the Accumulated Table of the whole run, before the Eligibility Filter
Accumulated == MergeUpTo(dataset, file_sequence, Len(file_sequence))

\* the permutations of file_sequence
Orderings(seq) ==
    {[k \in DOMAIN seq |-> seq[f[k]]] :
        f \in {g \in [DOMAIN seq -> DOMAIN seq] :
                  \A a, b \in DOMAIN seq : g[a] = g[b] => a = b}}

(***************************************************************************)
(* C1                                                                      *)
(***************************************************************************)
\* C1: after each fold step and after the last one, df_merged holds every
\* identifier seen so far in exactly one row, and no other identifier.
C1_EachIdentifierOnce ==
    Merging =>
        /\ \A id \in AllIDs :
              RowsWithId(df_merged, id) = IF id \in SeenIDs THEN 1 ELSE 0
        /\ \A r \in DOMAIN df_merged : r.customer_id \in AllIDs

\* an identifier with two rows in the first file and a row in the second,
\* all folded
C1_Witness ==
    /\ pc = "loop"
    /\ loop_index = 3
    /\ \E id \in AllIDs :
          /\ SumOf(FileAt(1), RowsOfId(id, 1)) = 2
          /\ RowsOfId(id, 2) # {}
          /\ RowsWithId(df_merged, id) = 1

(***************************************************************************)
(* C2                                                                      *)
(***************************************************************************)
\* C2: the aggregated label of an identifier is 1 if one of its rows seen so
\* far has label 1 and 0 if all of them have label 0, and a label that was 1
\* after an earlier period is 1 after every later one.
C2_MaxAggregation ==
    Merging =>
        /\ \A r \in DOMAIN df_merged :
              /\ 1 \in LabelsSeen(r.customer_id) => r.churned = 1
              /\ LabelsSeen(r.customer_id) = {0} => r.churned = 0
        /\ \A k \in Folded :
              \A q \in DOMAIN MergeUpTo(dataset, file_sequence, k) :
                  q.churned = 1 =>
                      \A r \in DOMAIN df_merged :
                          r.customer_id = q.customer_id => r.churned = 1

\* an identifier labelled 1 in the first period and 0 in the second keeps 1
C2_Witness ==
    /\ pc = "loop"
    /\ loop_index = 3
    /\ \E r \in DOMAIN df_merged :
          /\ {CastLabel(q.churned) : q \in RowsOfId(r.customer_id, 1)} = {1}
          /\ {CastLabel(q.churned) : q \in RowsOfId(r.customer_id, 2)} = {0}
          /\ r.churned = 1

PeriodsWith(id) == {k \in Folded : RowsOfId(id, k) # {}}

\* C4: the period_count of an identifier is the number of distinct periods
\* whose file contains the identifier.
C4_CountsPeriods ==
    Merging =>
        \A r \in DOMAIN df_merged :
            r.period_count = Cardinality(PeriodsWith(r.customer_id))

(***************************************************************************)
(* C5                                                                      *)
(***************************************************************************)
\* C5: folding the period files in any permutation of file_sequence gives
\* the final df_merged of the run.
C5_OrderInvariance ==
    pc = "filter" =>
        \A seq \in Orderings(file_sequence) :
            MergeUpTo(dataset, seq, Len(seq)) = df_merged

\* an identifier whose label differs between two periods, and another
\* identifier that only the second period holds
C5_Witness ==
    /\ pc = "filter"
    /\ \E id \in AllIDs :
          /\ {CastLabel(q.churned) : q \in RowsOfId(id, 1)} = {0}
          /\ {CastLabel(q.churned) : q \in RowsOfId(id, 2)} = {1}
    /\ \E id \in AllIDs : RowsOfId(id, 1) = {} /\ RowsOfId(id, 2) # {}
    /\ Cardinality(Orderings(file_sequence)) > 1

(***************************************************************************)
(* C6                                                                      *)
(***************************************************************************)
\* the filter cell has run
Filtered ==
    \/ pc \in {"fractions", "report", "sample", "write", "done"}
    \/ pc = "failed" /\ error \in {"ZeroDivisionError", "IllegalArgumentException"}

\* C6: the filtered df_merged holds exactly the records of the Accumulated
\* Table whose period_count is >= min_periods, unchanged, and it is the
\* Accumulated Table itself when min_periods = 0.
C6_EligibilityFilter ==
    Filtered =>
        LET table == Accumulated
        IN /\ \A r \in DOMAIN table :
                 CopiesIn(r, df_merged) =
                     IF r.period_count >= min_periods THEN table[r] ELSE 0
           /\ DOMAIN df_merged \subseteq DOMAIN table
           /\ min_periods = 0 => df_merged = table

\* a record with period_count = min_periods is kept, one below it is dropped
C6_Witness ==
    /\ pc = "fractions"
    /\ min_periods = 2
    /\ \E r \in DOMAIN Accumulated :
          r.period_count = min_periods /\ r \in DOMAIN df_merged
    /\ \E r \in DOMAIN Accumulated :
          r.period_count < min_periods /\ r \notin DOMAIN df_merged

(***************************************************************************)
(* C7                                                                      *)
(***************************************************************************)
\* the fractions cell has run
FractionsRun ==
    \/ pc \in {"report", "sample", "write", "done"}
    \/ pc = "failed" /\ error \in {"ZeroDivisionError", "IllegalArgumentException"}

\* the rows of the eligible table, and those with a label > 0
EligibleRows == SumOf(df_merged, DOMAIN df_merged)
PositiveRows == SumOf(df_merged, {r \in DOMAIN df_merged : r.churned = 1})

\* the lines of stdout that the sample cell and the write cell print
SampledOrWritten ==
    \E k \in DOMAIN stdout :
        stdout[k].line \in {"Actual subset size",
                            "Parquet file successfully written"}

\* C7: when the eligible table has no positive row or no other row, the
\* fractions cell ends the run with ZeroDivisionError, whatever the size of
\* the table; no sample is drawn and no file is written afterwards.
C7_ZeroDivision ==
    FractionsRun /\ (PositiveRows = 0 \/ EligibleRows = PositiveRows) =>
        /\ pc = "failed"
        /\ error = "ZeroDivisionError"
        /\ ~SampledOrWritten
        /\ parquet = NoFile
        /\ ~ENABLED Next

\* a table of two positive rows and no negative row
C7_Witness ==
    /\ pc = "failed"
    /\ error = "ZeroDivisionError"
    /\ EligibleRows = 2
    /\ PositiveRows = 2

(***************************************************************************)
(* C9                                                                      *)
(***************************************************************************)
\* the sample cell has drawn df_final
Sampled == pc \in {"write", "done"}

Record(id, label, count) ==
    [customer_id |-> id, churned |-> label, period_count |-> count]

\* the parameters of the scenario: min_periods=2, target size 2, positive
\* fraction 0.5
ScenarioParameters ==
    min_periods = 2 /\ n_sub_ids = 2 /\ p_sub_positive = <<1, 2>>

\* the merged table and the eligible set of the scenario
ScenarioMerged ==
    SetToBag({Record("A", 1, 3), Record("B", 1, 2), Record("C", 0, 1)})
ScenarioEligible == SetToBag({Record("A", 1, 3), Record("B", 1, 2)})

\* C8 (as amended): the three periods fold to {A:(1,3), B:(1,2), C:(0,1)};
\* with min_periods=2 the eligible set is {A,B}, both of label 1, so that
\* N = N+ = 2; with target size 2 and positive fraction 0.5 the fractions
\* cell computes f+ = 2*0.5/2 = 0.5 and ends the run with ZeroDivisionError
\* on f-: no sample is drawn and no file is written.
C8_Scenario ==
    /\ pc = "filter" => df_merged = ScenarioMerged
    /\ Filtered /\ min_periods = 2 => df_merged = ScenarioEligible
    /\ FractionsRun /\ ScenarioParameters =>
          /\ n_total = 2
          /\ n_positive = 2
          /\ FracEq(f_positive, <<1, 2>>)
          /\ pc = "failed"
          /\ error = "ZeroDivisionError"
          /\ df_final = EmptyBag
          /\ ~SampledOrWritten
          /\ parquet = NoFile

\* the run of the scenario has ended in the fractions cell
C8_Witness ==
    /\ ScenarioParameters
    /\ dataset = ScenarioFiles
    /\ pc = "failed"
    /\ df_merged = ScenarioEligible

\* C8 (as claimed): the same merged table and eligible set, then f+ = 1.0
\* and f- = 1.0, and both A and B are in the sample, whatever the draws.
C8_ScenarioAsClaimed ==
    /\ pc = "filter" => df_merged = ScenarioMerged
    /\ Filtered /\ min_periods = 2 => df_merged = ScenarioEligible
    /\ FractionsRun /\ ScenarioParameters =>
          /\ pc # "failed"
          /\ FracEq(f_positive, <<1, 1>>)
          /\ FracEq(f_negative, <<1, 1>>)
    /\ Sampled /\ ScenarioParameters =>
          {r.customer_id : r \in DOMAIN df_final} = {"A", "B"}

(***************************************************************************)
(* C10                                                                     *)
(***************************************************************************)
\* the sample cell has run
SampleRun == Sampled \/ (pc = "failed" /\ error = "IllegalArgumentException")

\* the fraction the notebook computes for the class of a record
ClassFraction(r) == IF r.churned = 1 THEN f_positive ELSE f_negative

\* a class of fraction >= 1 is in df_final in full, a class of fraction 0
\* and the records of a label other than 0 and 1 are not in it
BoundaryClasses ==
    \A r \in DOMAIN df_merged :
        /\ r.churned \in {0, 1} /\ FracLeq(<<1, 1>>, ClassFraction(r))
              => CopiesIn(r, df_final) = df_merged[r]
        /\ r.churned \in {0, 1} /\ FracEq(ClassFraction(r), <<0, 1>>)
              => CopiesIn(r, df_final) = 0
        /\ r.churned \notin {0, 1} => CopiesIn(r, df_final) = 0

\* C10: with the fractions the notebook computes, which can exceed 1, the
\* sample cell raises no error, keeps a class of fraction >= 1 in full,
\* drops a class of fraction 0 and drops the records whose label is no key
\* of the fraction mapping.
C10_SamplerBoundaries ==
    SampleRun => pc # "failed" /\ BoundaryClasses

\* what the sample cell does do: a fraction above 1 is an error of sampleBy,
\* and the boundary classes are as claimed in every sample that is drawn
C10_SamplerWithinUnitInterval ==
    /\ pc = "failed" /\ error = "IllegalArgumentException" <=>
          /\ SampleRun
          /\ \/ FracLess(<<1, 1>>, f_positive)
             \/ FracLess(<<1, 1>>, f_negative)
    /\ Sampled => BoundaryClasses

(***************************************************************************)
(* Repeatability of the sample                                             *)
(***************************************************************************)
\* the samples that the table, the fractions and a stream of the seed can
\* yield, one for each order in which the rows can come
SamplesOf(stream) ==
    {SampleBy(df_merged, DrawsOf(order, stream), f_negative, f_positive) :
        order \in RowOrders(df_merged)}

\* C11: the sample is determined by the input table, the fractions and the
\* seed: whatever stream of values the seed yields, the table that sampleBy
\* is about to sample has one sample only, so that two runs over the same
\* files with the same parameters and seed select the same records
C11_SeedDeterminesSample ==
    (pc = "sample" /\ FractionsOK(f_negative, f_positive)) =>
        \A stream \in RandStreams(Cardinality(DOMAIN df_merged)) :
            Cardinality(SamplesOf(stream)) = 1

(***************************************************************************)
(* Idempotence of the Eligibility Filter                                   *)
(***************************************************************************)
\* the thresholds up to one above the largest period_count of a table
Thresholds == 0 .. MaxRows + 1

\* C12: filtering a filtered table again with the same threshold changes
\* nothing: for the Accumulated Table of the run and every threshold, and
\* for the table the filter cell has left and the min_periods of the run
C12_FilterIdempotent ==
    /\ pc = "filter" =>
          \A minimum \in Thresholds :
              LET once == Eligible(df_merged, minimum)
              IN Eligible(once, minimum) = once
    /\ Filtered => Eligible(df_merged, min_periods) = df_merged

\* the filter cell has dropped a record and kept another, and for a
\* threshold the Accumulated Table would lose every record
C12_Witness ==
    /\ pc = "fractions"
    /\ min_periods > 0
    /\ df_merged # EmptyBag
    /\ Count(df_merged) < Count(Accumulated)
    /\ \E minimum \in Thresholds : Eligible(Accumulated, minimum) = EmptyBag

(***************************************************************************)
(* Period indices outside the suffix table                                 *)
(***************************************************************************)
\* the 0-based period indices of the months of the suffix table: 0 .. 11
MonthIndices == 0 .. Len(suffixes) - 2

\* the merge cell has generated the filename of every index of
\* file_sequence
FilenamesGenerated == pc # "merge"

\* C13: full_filename fails with an index error for every 0-based period
\* index other than those of the twelve months, negative indices included:
\* once the merge cell has generated the filenames of a file_sequence that
\* holds such an index, the run has ended with IndexError.
C13_IndexErrorOutsideMonths ==
    (FilenamesGenerated
     /\ \E k \in DOMAIN file_sequence : file_sequence[k] \notin MonthIndices)
        => (pc = "failed" /\ error = "IndexError")

\* what full_filename does: IndexError exactly for the indices for which
\* index + 1 is outside -13 .. 12, the indices Python accepts for the 13
\* entries of month_abbr; for -14 .. -1 it returns a path
C13_IndexErrorOutsideTable ==
    FilenamesGenerated =>
        ((\E k \in DOMAIN file_sequence :
             file_sequence[k] + 1 \notin -Len(suffixes) .. Len(suffixes) - 1)
         <=> (pc = "failed" /\ error = "IndexError"))

(***************************************************************************)
(* Progress of the merge loop                                              *)
(***************************************************************************)
\* the progress lines printed so far, one for each period folded
ProgressLines ==
    SelectSeq(stdout, LAMBDA l : l.line = "Finished with file")

\* the progress lines are those of the periods before position i of
\* file_sequence, in order, each with the row count of the table folded up
\* to its period, and df_merged is the table folded up to position i - 1
ProgressUpTo(i) ==
    /\ Len(ProgressLines) = i - 1
    /\ \A k \in 1 .. i - 1 :
          /\ ProgressLines[k].file = full_filename(file_sequence[k], "")
          /\ ProgressLines[k].rows =
                 Count(MergeUpTo(dataset, file_sequence, k))
    /\ df_merged = MergeUpTo(dataset, file_sequence, i - 1)

\* the file of the period at the loop's position cannot be read
ReadFailed == pc = "failed" /\ error = "AnalysisException"

\* C14: when the loop is about to read the file of a period, the periods
\* before it, and no others, have been folded and counted and have their
\* progress line; when reading the file of period i fails, the run has
\* stopped with the progress lines of exactly the periods before i, df_merged
\* as those periods left it, no sample drawn and no file written, and no
\* further step of the run is taken.
C14_ProgressOrdering ==
    /\ pc = "loop" => ProgressUpTo(loop_index)
    /\ ReadFailed =>
          /\ loop_index \in DOMAIN file_sequence
          /\ ProgressUpTo(loop_index)
          /\ ~SampledOrWritten
          /\ df_final = EmptyBag
          /\ parquet = NoFile
          /\ ~ENABLED Next

\* the file of the second period cannot be read: the run has stopped with
\* the progress line of the first period, which found rows
C14_Witness ==
    /\ ReadFailed
    /\ loop_index = 2
    /\ Len(ProgressLines) = 1
    /\ ProgressLines[1].rows > 0
    /\ stdout[Len(stdout)].line = "Finished with file"

(***************************************************************************)
(* The file written                                                        *)
(***************************************************************************)
\* C15: the Parquet file written holds the sampled table, and its columns
\* are the identifier column and the label column.
C15_IdentifierAndLabelColumns ==
    parquet.written =>
        /\ parquet.rows = df_final
        /\ parquet.columns = <<"customer_id", "churned">>
        /\ \A r \in DOMAIN parquet.rows :
              DOMAIN r = {"customer_id", "churned"}

(***************************************************************************)
(* Folding against grouping once                                           *)
(***************************************************************************)
\* the multiset union of the rows of the periods folded so far, as the
\* loop reads them
RowsFolded ==
    LET read == [k \in Folded |-> ReadPeriod(FileAt(k))]
        rows == UNION {DOMAIN read[k] : k \in Folded}
    IN [r \in rows |-> SumOf([k \in Folded |-> CopiesIn(r, read[k])], Folded)]

\* the rows grouped by identifier once: the max of the labels and the
\* number of rows of each identifier
OneShot(rows) ==
    LET Group(id) == {r \in DOMAIN rows : r.customer_id = id}
    IN SetToBag({[customer_id |-> id,
                  churned |-> MaxLabel(Group(id)),
                  period_count |-> SumOf(rows, Group(id))] :
                 id \in {r.customer_id : r \in DOMAIN rows}})

\* C16: after every fold, and after the last, the table built by folding
\* the periods one at a time is the table obtained by grouping the multiset
\* union of the rows of those periods once, with label = max and
\* period_count = number of rows.
C16_FoldingIsOneShot ==
    Merging => df_merged = OneShot(RowsFolded)

\* an identifier with rows in two periods and three rows in all, folded
\* into the table of the whole run
C16_Witness ==
    /\ pc = "filter"
    /\ \E r \in DOMAIN df_merged :
          /\ r.period_count = MaxRows
          /\ Cardinality(PeriodsWith(r.customer_id)) >= 2

(***************************************************************************)
(* The counters of the progress lines                                      *)
(***************************************************************************)
\* the identifiers with a row in one of the first k periods
IDsUpTo(k) == {id \in AllIDs : \E j \in 1 .. k : RowsOfId(id, j) # {}}

\* the identifiers seen in period k and in no period before it
FirstSeenIn(k) == IDsUpTo(k) \ IDsUpTo(k - 1)

\* the line with the number of unique IDs, printed after the loop
UniqueIDsLines == SelectSeq(stdout, LAMBDA l : l.line = "unique IDs")

\* C17: the progress line of each period reports as rows the number of
\* distinct identifiers seen up to that period, which never decreases, and
\* as added rows the number of identifiers first seen in that period,
\* which is never negative; the added rows of all periods sum to the
\* number of unique IDs reported after the loop.
C17_ProgressCounters ==
    Merging =>
        /\ Len(ProgressLines) = Cardinality(Folded)
        /\ \A k \in Folded :
              /\ ProgressLines[k].rows = Cardinality(IDsUpTo(k))
              /\ ProgressLines[k].diff = Cardinality(FirstSeenIn(k))
              /\ ProgressLines[k].diff >= 0
              /\ k > 1 => ProgressLines[k].rows >= ProgressLines[k - 1].rows
        /\ pc = "filter" =>
              /\ Len(UniqueIDsLines) = 1
              /\ UniqueIDsLines[1].rows =
                     SumOf([k \in Folded |-> ProgressLines[k].diff], Folded)
              /\ UniqueIDsLines[1].rows = Cardinality(SeenIDs)

\* the first period brings one identifier, the second brings it again
\* together with a new one: 1 row and 1 added, then 2 rows and 1 added
C17_Witness ==
    /\ pc = "filter"
    /\ Len(ProgressLines) = 2
    /\ ProgressLines[1].rows = 1
    /\ ProgressLines[2].rows = 2
    /\ ProgressLines[2].diff = 1
    /\ \E id \in SeenIDs : Cardinality(PeriodsWith(id)) = 2

(***************************************************************************)
(* A failing period index                                                  *)
(***************************************************************************)
\* full_filename has failed for an index of file_sequence
IndexFailed == pc = "failed" /\ error = "IndexError"

\* C18: the filename of every period is generated before the first file
\* is read: when full_filename fails for an index of file_sequence, the run
\* has ended with no period folded, df_merged empty and nothing printed,
\* wherever the index stands in the sequence; and when the loop runs, the
\* filename of every period has been generated and max_len is the largest
\* of their lengths.
C18_FilenamesBeforeFirstRead ==
    /\ IndexFailed =>
          /\ \E k \in DOMAIN file_sequence : ~FilenameOK(file_sequence[k])
          /\ df_merged = EmptyBag
          /\ loop_index = 1
          /\ ProgressLines = <<>>
          /\ stdout = <<>>
          /\ lastrows = 0
    /\ pc = "loop" =>
          /\ \A k \in DOMAIN file_sequence : FilenameOK(file_sequence[k])
          /\ \A k \in DOMAIN file_sequence :
                Len(full_filename(file_sequence[k], "")) <= max_len

\* the last index of the sequence is the only one for which full_filename
\* fails, and the file of the first period has rows: none was folded
C18_Witness ==
    /\ IndexFailed
    /\ Len(file_sequence) >= 2
    /\ \A k \in DOMAIN file_sequence :
          FilenameOK(file_sequence[k]) <=> k < Len(file_sequence)
    /\ full_filename(file_sequence[1], file_path) \in DOMAIN dataset
    /\ dataset[full_filename(file_sequence[1], file_path)] # EmptyBag
    /\ df_merged = EmptyBag

====
